---------------------------- MODULE Spec2Model ----------------------------
(***************************************************************************)
(* Expense-claim backend: the claim store, the identity store and the      *)
(* route handlers of src/routers/claims.js (both route sets of the file),  *)
(* src/routers/users.js and src/routers/auth.js, over the claim schema of  *)
(* src/models/claim.js and the user schema.                                *)
(*                                                                         *)
(* Spec      : the claim routes; every handler runs to completion before   *)
(*             the next request.                                           *)
(* SpecRace  : approve and reject handlers interleave at their awaits      *)
(*             (findById, then save).                                      *)
(* SpecUsers : the user routes and the login.                              *)
(* SpecRead  : the routes that answer with user data.                      *)
(* SpecIds   : generateEmployeeId on the user collections.                 *)
(***************************************************************************)
EXTENDS Integers, Sequences, FiniteSets, TLC

VARIABLES
    claims,   \* claim store: a function from the stored claim ids to documents
    users,    \* identity store: the set of user ids that have a document
    req,      \* the request handled last
    res,      \* the response sent to it
    logged,   \* the auth.logActivity calls the last request made
    flight    \* SpecRace: the handlers suspended at an await

vars == <<claims, users, req, res, logged, flight>>

---------------------------------------------------------------------------
(* Bounds of the model *)

NumWorkers == 2
MaxInFlight == 2

(* Program constants *)

Threshold == 1000

---------------------------------------------------------------------------
(* Identities.  A request carries a verified token {userId, role}.         *)

WorkerNames == <<"w1", "w2", "w3">>
Workers == {WorkerNames[i] : i \in 1..NumWorkers}
UserIds == Workers \cup {"admin", "acct"}

\* userSchema.role
UserRoles == {"admin", "worker", "administrator", "accountant"}

RoleOf(u) ==
    IF u = "admin" THEN "admin"
    ELSE IF u = "acct" THEN "accountant"
    ELSE "worker"

\* auth.checkRole(...roles): the request goes on only for a listed role
checkRole(allowed, u) == RoleOf(u) \in allowed

ClaimIds == {"c1"}

\* ids of the user documents that POST /users may add
NewUserIds == {"u1"}

NoUser == "none"
NoText == ""

\* amounts a request body may carry
Amounts == {-5, 0, Threshold, Threshold + 1}
OptAmounts == {<<>>} \cup {<<a>> : a \in Amounts}

---------------------------------------------------------------------------
(* The claim schema *)

\* a status enum that also lists the status the recommend handler writes
ClaimStatuses_withRecommendation ==
    {"new", "verified", "rejected", "paid", "approved", "pending", "recommendation"}

\* claimSchema.status enum
ClaimStatuses == {"new", "verified", "rejected", "paid", "approved", "pending"}

\* an amount check that accepts every number
AmountValid_any(a) == TRUE

\* claimSchema.amount: min 0
AmountValid(a) == a >= 0

\* a save() that does not check the status enum
ClaimValid_noEnum(doc) ==
    /\ doc.claimant_name # NoText
    /\ doc.claim_type # NoText
    /\ AmountValid(doc.amount)

\* what document.save() validates of a claim document: the required paths,
\* the status enum and the amount minimum
ClaimValid(doc) ==
    /\ doc.claimant_name # NoText
    /\ doc.claim_type # NoText
    /\ doc.status \in ClaimStatuses
    /\ AmountValid(doc.amount)

\* a document as new Claim(claimData) builds it; paths the schema does not
\* declare (user_name, description, recommendation) are dropped
NewClaim(owner, name, type, amount, status) ==
    [ user_id           |-> owner,
      claimant_name     |-> name,
      claim_type        |-> type,
      status            |-> status,
      amount            |-> amount,
      approved_by       |-> NoUser,
      approved_at       |-> FALSE,
      rejected_by       |-> NoUser,
      rejected_at       |-> FALSE,
      rejection_reason  |-> NoText,
      paid_by           |-> NoUser,
      paid_at           |-> FALSE,
      payment_reference |-> NoText ]

---------------------------------------------------------------------------
(* The user schema *)

\* userSchema.status enum
UserStatuses == {"active", "inactive", "suspended"}

\* an employee id "<prefix>-<n>", as the text the schema stores
EmployeeId(prefix, n) == [ prefix |-> prefix, n |-> n ]

\* the suffix of the first id generateEmployeeId hands out, and the base of
\* its count-derived ids
FirstSuffix == 1001
CountBase == 1000

\* String.prototype.toUpperCase on the employee ids of the model
toUpperCase(id) == IF id.prefix = "hfa-w" THEN EmployeeId("HFA-W", id.n) ELSE id

\* bcrypt.hash(password, salt): the text that is stored for a password
bcryptHash(password) == <<"$2a$10$", password>>

\* a document as new User(userData) builds it and the pre-save hook stores it
NewUser(employee_id, email, password, role, status) ==
    [ employee_id |-> employee_id, email |-> email,
      password |-> bcryptHash(password), role |-> role, status |-> status ]

\* a toJSON that leaves the document as it is
toJSON_whole(doc) == doc

\* userSchema.methods.toJSON: the document without its password
toJSON(doc) == [ f \in DOMAIN doc \ {"password"} |-> doc[f] ]

\* query.select('-password')
selectNoPassword(doc) == [ f \in DOMAIN doc \ {"password"} |-> doc[f] ]

\* populate(path, 'f1 f2 ...'): the named fields of a document
selectFields(doc, fields) == [ f \in fields |-> doc[f] ]

\* what document.save() validates of a user document
UserValid(doc) ==
    /\ doc.email # NoText
    /\ doc.role \in UserRoles
    /\ doc.status \in UserStatuses

\* the unique indexes on email and employee_id
UniqueIndex(store, id, doc) ==
    \A x \in DOMAIN store \ {id} :
        /\ store[x].email # doc.email
        /\ store[x].employee_id # doc.employee_id

\* the user documents at the start: the admin that the login route creates,
\* the others with generated employee ids
InitialEmail(u) ==
    CASE u = "admin" -> "admin@x"
      [] u = "acct" -> "acct@x"
      [] u = "w1" -> "w1@x"
      [] u = "w2" -> "w2@x"
      [] OTHER -> "w3@x"

InitialEmployeeId(u) ==
    CASE u = "admin" -> EmployeeId("HFA-ADMIN", 1)
      [] u = "acct" -> EmployeeId("HFA-W", FirstSuffix + 1)
      [] u = "w1" -> EmployeeId("HFA-W", FirstSuffix + 2)
      [] u = "w2" -> EmployeeId("HFA-W", FirstSuffix + 3)
      [] OTHER -> EmployeeId("HFA-W", FirstSuffix + 4)

\* the password each account of the start was created with
PasswordOf(u) == IF u = "admin" THEN "Admin@123" ELSE "secret"

InitialUsers ==
    [ u \in UserIds |-> NewUser(InitialEmployeeId(u), InitialEmail(u), PasswordOf(u),
                                RoleOf(u), "active") ]

\* the order of MongoDB's sort on the employee id texts: character by
\* character, so the digits of the suffix compare as text
RECURSIVE Digits(_)
Digits(n) == IF n < 10 THEN <<n>> ELSE Append(Digits(n \div 10), n % 10)

RECURSIVE LexLess(_, _)
LexLess(a, b) ==
    IF a = <<>> THEN b # <<>>
    ELSE IF b = <<>> THEN FALSE
    ELSE IF a[1] # b[1] THEN a[1] < b[1]
    ELSE LexLess(Tail(a), Tail(b))

PrefixRank(p) ==
    CASE p = "HFA-ADMIN" -> 1
      [] p = "HFA-W" -> 2
      [] OTHER -> 3

StringLess(a, b) ==
    \/ PrefixRank(a.prefix) < PrefixRank(b.prefix)
    \/ /\ a.prefix = b.prefix
       /\ LexLess(Digits(a.n), Digits(b.n))

\* lastId.match(/HFA-W-(\d+)/)
Matches(id) == id.prefix = "HFA-W"

\* userSchema.statics.generateEmployeeId
generateEmployeeId(store) ==
    IF DOMAIN store = {} THEN EmployeeId("HFA-W", FirstSuffix)
    ELSE LET last == CHOOSE x \in DOMAIN store :
                         \A y \in DOMAIN store :
                             ~StringLess(store[x].employee_id, store[y].employee_id)
             lastId == store[last].employee_id
         IN  IF Matches(lastId) THEN EmployeeId("HFA-W", lastId.n + 1)
             ELSE EmployeeId("HFA-W", CountBase + Cardinality(DOMAIN store) + 1)

---------------------------------------------------------------------------
(* Requests, responses, audit calls *)

Request(op, by, id, amount, text, status) ==
    [ op |-> op, by |-> by, id |-> id, amount |-> amount,
      text |-> text, status |-> status, body |-> <<>> ]

\* a request of the user routes: its body is a record of optional fields
UserRequest(op, by, id, body) ==
    [ op |-> op, by |-> by, id |-> id, amount |-> <<>>,
      text |-> NoText, status |-> "none", body |-> <<body>> ]

NoRequest == Request("none", NoUser, "none", <<>>, NoText, "none")

\* res.status(code).json({success, data})
Response(code, data) == [ code |-> code, data |-> data ]

\* the values the schema of src/auditLog.js accepts
AuditActions ==
    {"login", "logout", "create", "update", "delete", "approve", "reject", "pay"}
AuditEntities == {"user", "claim", "system"}

\* auth.logActivity(req, action, entity_type, entity_id, details): one append,
\* stored when the audit schema accepts it
logActivity(u, action, entity, id) ==
    << [ action |-> action, entity_type |-> entity, entity_id |-> id,
         user_id |-> u,
         stored |-> action \in AuditActions /\ entity \in AuditEntities ] >>

\* a slot of SpecRace that holds no handler
Idle == [ pc |-> "idle", op |-> "none", by |-> NoUser, id |-> "none",
          text |-> NoText, seen |-> <<>>, code |-> 0 ]

---------------------------------------------------------------------------
(* One handler run: the stores after it, its response, its audit calls *)

Outcome(code, store, data, log) ==
    [ code |-> code, claims |-> store, data |-> data, log |-> log ]

NoResponse == Response(0, <<>>)

\* no exchange is in progress
Ready == req = NoRequest

\* the audit appends of a handler as they end: each as logActivity made it,
\* or all of them lost because the audit collection could not be written
AuditWrites(log) ==
    {log, [ i \in DOMAIN log |-> [log[i] EXCEPT !.stored = FALSE] ]}

\* a handler that answers with an error when its audit append is lost
Handle_strict(r, o) ==
    /\ req' = r
    /\ logged' \in AuditWrites(o.log)
    /\ res' = IF logged' = o.log THEN Response(o.code, o.data)
              ELSE Response(500, <<>>)
    /\ claims' = o.claims
    /\ UNCHANGED <<users, flight>>

\* the server runs the handler of request r to the end
Handle(r, o) ==
    /\ req' = r
    /\ res' = Response(o.code, o.data)
    /\ claims' = o.claims
    /\ logged' \in AuditWrites(o.log)
    /\ UNCHANGED <<users, flight>>

Put(store, c, doc) == [ x \in DOMAIN store \cup {c} |-> IF x = c THEN doc ELSE store[x] ]
Remove(store, c) == [ x \in DOMAIN store \ {c} |-> store[x] ]

---------------------------------------------------------------------------
(* Helpers of the handlers *)

\* express-validator's trim(): a text of blanks becomes empty
trim(t) == IF t = " " THEN NoText ELSE t

\* a lower-casing that leaves every text as it is
toLowerCase_identity(t) == t

\* String.prototype.toLowerCase / toLocaleLowerCase on the texts of the model
toLowerCase(t) ==
    IF t = "Approved" THEN "approved"
    ELSE IF t = "W1@X" THEN "w1@x"
    ELSE t

\* JavaScript truthiness of a JSON number in the body: if (req.body.amount)
Truthy(amount) == amount # <<>> /\ amount[1] # 0

\* body.fields of a create request: "ok", "invalid" (an express-validator
\* check fails) or "partial" (the checks pass, claimant_name and category
\* are absent) or "decided" (as "ok", and the body also carries approved_by,
\* rejected_by, paid_by, rejection_reason, payment_reference and status)
BodyFields == {"ok", "invalid", "partial", "decided"}
Reasons == {NoText, " ", "late"}
References == {NoText, " ", "ref"}
StatusInputs == ClaimStatuses \cup {"recommendation", "Approved", "none"}

\* a guard that forgets that a paid claim is closed
EditableV1_withPaid == {"new", "pending", "recommendation", "paid"}

\* the statuses each guard lists
EditableV1 == {"new", "pending", "recommendation"}
EditableV2 == {"new", "pending", "verified"}
Decidable == {"new", "pending", "recommendation"}

\* the amount rule of POST /claims, first route set
InitialStatus(amount) == IF amount > Threshold THEN "pending" ELSE "new"

\* the amount rule with the comparison off by one
Promoted_atThreshold(amount, status) ==
    IF Truthy(amount) /\ amount[1] >= Threshold /\ status = "new"
    THEN "pending" ELSE status

\* the amount rule of PUT /claims/:id
Promoted(amount, status) ==
    IF Truthy(amount) /\ amount[1] > Threshold /\ status = "new"
    THEN "pending" ELSE status

\* populate('user_id'): the owner's document, null when it is gone
populate(u) == IF u \in DOMAIN users THEN u ELSE NoUser

---------------------------------------------------------------------------
(* GET /claims, both route sets *)

\* the query filters of the model: an owner (NoUser when absent) and a
\* status ("none" when absent)
OwnerFilters == {NoUser, "w1"}
StatusFilters == {"none", "new"}

RECURSIVE Docs(_, _)
Docs(store, ids) ==
    IF ids = {} THEN <<>>
    ELSE LET c == CHOOSE x \in ids : TRUE
         IN  <<store[c]>> \o Docs(store, ids \ {c})

\* Claim.find(query)
find(store, owner, status) ==
    Docs(store, {c \in DOMAIN store :
                    /\ owner = NoUser \/ store[c].user_id = owner
                    /\ status = "none" \/ store[c].status = status})

\* the audit call of the list routes
viewed(u) == IF RoleOf(u) = "admin" THEN logActivity(u, "view", "claim", "all") ELSE <<>>

listClaimsV1(store, u, owner, status) ==
    Outcome(200, store,
            find(store, IF RoleOf(u) # "admin" THEN u ELSE owner, status),
            viewed(u))

listClaimsV2(store, u, owner, status) ==
    Outcome(200, store, find(store, owner, status), viewed(u))

---------------------------------------------------------------------------
(* GET /claims/:id, both route sets *)

\* populate('user_id', 'name email employee_id department') and
\* populate('approved_by' / 'rejected_by' / 'paid_by', 'name employee_id')
referred(u, fields) ==
    IF u \in DOMAIN users THEN selectFields(users[u], fields) ELSE NoUser

populated(doc) ==
    [doc EXCEPT !.user_id = referred(@, {"email", "employee_id"}),
                !.approved_by = referred(@, {"employee_id"}),
                !.rejected_by = referred(@, {"employee_id"}),
                !.paid_by = referred(@, {"employee_id"})]

\* the texts that cast to an ObjectId; findById throws a CastError on others
IsObjectId(c) == c \in ClaimIds

getClaim(store, u, c) ==
    IF ~IsObjectId(c) THEN Outcome(500, store, <<>>, <<>>)
    ELSE IF c \notin DOMAIN store THEN Outcome(404, store, <<>>, <<>>)
    ELSE IF RoleOf(u) # "admin" /\ populate(store[c].user_id) = NoUser
        THEN Outcome(500, store, <<>>, <<>>)      \* claim.user_id._id of null
    ELSE IF RoleOf(u) # "admin" /\ store[c].user_id # u
        THEN Outcome(403, store, <<>>, <<>>)
    ELSE Outcome(200, store, <<populated(store[c])>>, <<>>)

GetClaim(u, c) ==
    Handle(Request("get", u, c, <<>>, NoText, "none"), getClaim(claims, u, c))

---------------------------------------------------------------------------
(* GET /claims/stats and the dispatch of a GET request.  Express tries the  *)
(* routes of a router in the order of their registration.                   *)

\* the GET routes of the claims router, in registration order
GetRoutes ==
    << [ pattern |-> "/", handler |-> "listClaims" ],
       [ pattern |-> "/:id", handler |-> "getClaim" ],
       [ pattern |-> "/stats", handler |-> "getStats" ] >>

\* path-to-regexp: a path is the sequence of its segments
matchesRoute(pattern, path) ==
    CASE pattern = "/" -> path = <<>>
      [] pattern = "/:id" -> Len(path) = 1
      [] OTHER -> path = <<"stats">>

\* the handler of the first route that matches
dispatch(path) ==
    LET hits == {i \in DOMAIN GetRoutes : matchesRoute(GetRoutes[i].pattern, path)}
        first == CHOOSE i \in hits : \A j \in hits : i <= j
    IN  GetRoutes[first].handler

\* the aggregate of the statistics handler: the count of the caller's
\* claims, of all claims for an admin
getStats(store, u) ==
    LET seen == {c \in DOMAIN store : RoleOf(u) = "admin" \/ store[c].user_id = u}
    IN  Outcome(200, store, <<[ total |-> Cardinality(seen) ]>>, <<>>)

---------------------------------------------------------------------------
(* POST /claims *)

createClaimV1(store, u, c, amount, fields) ==
    IF ~checkRole({"worker", "admin"}, u) THEN Outcome(403, store, <<>>, <<>>)
    ELSE IF fields = "invalid" \/ amount = <<>> \/ ~AmountValid(amount[1])
        THEN Outcome(400, store, <<>>, <<>>)
    ELSE IF u \notin DOMAIN users THEN Outcome(404, store, <<>>, <<>>)
    ELSE LET doc == NewClaim(u, NoText, NoText, amount[1], InitialStatus(amount[1]))
         IN  IF ~ClaimValid(doc) THEN Outcome(500, store, <<>>, <<>>)
             ELSE Outcome(201, Put(store, c, doc), <<doc>>,
                          logActivity(u, "create", "claim", c))

\* {...req.body, user_id, ..., claim_type} and the later claimData.status:
\* every body path the handler does not set again stays in the document
spread(fields, doc) ==
    IF fields = "decided"
    THEN [doc EXCEPT !.approved_by = "admin", !.rejected_by = "admin",
                     !.paid_by = "admin", !.rejection_reason = "late",
                     !.payment_reference = "ref"]
    ELSE doc

createClaimV2(store, u, c, amount, fields) ==
    IF ~checkRole({"worker", "admin"}, u) THEN Outcome(403, store, <<>>, <<>>)
    ELSE IF fields = "invalid" \/ amount = <<>> \/ ~AmountValid(amount[1])
        THEN Outcome(400, store, <<>>, <<>>)
    ELSE IF u \notin DOMAIN users THEN Outcome(404, store, <<>>, <<>>)
    ELSE LET name == IF fields = "partial" THEN NoText ELSE "claimant"
             type == IF fields = "partial" THEN NoText ELSE "category"
             doc == spread(fields, NewClaim(u, name, type, amount[1], "new"))
         IN  IF ~ClaimValid(doc) THEN Outcome(500, store, <<>>, <<>> )
             ELSE Outcome(201, Put(store, c, doc), <<doc>>,
                          logActivity(u, "create", "claim", c))

CreateClaimV1(u, c, amount, fields) ==
    LET o == createClaimV1(claims, u, c, amount, fields)
    IN  /\ o.code = 201 => c \notin DOMAIN claims
        /\ Handle(Request("createV1", u, c, amount, fields, "none"), o)

CreateClaimV2(u, c, amount, fields) ==
    LET o == createClaimV2(claims, u, c, amount, fields)
    IN  /\ o.code = 201 => c \notin DOMAIN claims
        /\ Handle(Request("createV2", u, c, amount, fields, "none"), o)

---------------------------------------------------------------------------
(* PUT /claims/:id *)

\* an ownership check that lets every caller through
DeniedV1_open(u, doc) == FALSE

\* the ownership checks of the two route sets
DeniedV1(u, doc) == RoleOf(u) # "admin" /\ doc.user_id # u
DeniedV2(u, doc) == RoleOf(u) # "admin" \/ doc.user_id # u

\* the field updates and the save of both route sets
applyUpdate(store, u, c, amount) ==
    LET doc == store[c]
        upd == [doc EXCEPT !.amount = IF Truthy(amount) THEN amount[1] ELSE @,
                           !.status = Promoted(amount, @)]
    IN  IF ~ClaimValid(upd) THEN Outcome(500, store, <<>>, <<>>)
        ELSE Outcome(200, Put(store, c, upd), <<upd>>,
                     logActivity(u, "update", "claim", c))

updateClaimV1(store, u, c, amount) ==
    IF c \notin DOMAIN store THEN Outcome(404, store, <<>>, <<>>)
    ELSE IF DeniedV1(u, store[c]) THEN Outcome(403, store, <<>>, <<>>)
    ELSE IF store[c].status \notin EditableV1 THEN Outcome(400, store, <<>>, <<>>)
    ELSE applyUpdate(store, u, c, amount)

updateClaimV2(store, u, c, amount) ==
    IF c \notin DOMAIN store THEN Outcome(404, store, <<>>, <<>>)
    ELSE IF DeniedV2(u, store[c]) THEN Outcome(403, store, <<>>, <<>>)
    ELSE IF store[c].status \notin EditableV2 THEN Outcome(400, store, <<>>, <<>>)
    ELSE applyUpdate(store, u, c, amount)

UpdateClaimV1(u, c, amount) ==
    Handle(Request("updateV1", u, c, amount, NoText, "none"),
           updateClaimV1(claims, u, c, amount))

UpdateClaimV2(u, c, amount) ==
    Handle(Request("updateV2", u, c, amount, NoText, "none"),
           updateClaimV2(claims, u, c, amount))

---------------------------------------------------------------------------
(* PUT /claims/:id/approve, /reject, /recommend, /pay *)

\* a save that issues the audit call although the write failed
saved_logsAlways(store, u, c, doc, action) ==
    IF ~ClaimValid(doc) THEN Outcome(500, store, <<>>, logActivity(u, action, "claim", c))
    ELSE Outcome(200, Put(store, c, doc), <<doc>>, logActivity(u, action, "claim", c))

\* the saves of the per-action handlers
saved(store, u, c, doc, action) ==
    IF ~ClaimValid(doc) THEN Outcome(500, store, <<>>, <<>>)
    ELSE Outcome(200, Put(store, c, doc), <<doc>>, logActivity(u, action, "claim", c))

approved(doc, u) ==
    [doc EXCEPT !.status = "approved", !.approved_by = u, !.approved_at = TRUE]

rejected(doc, u, reason) ==
    [doc EXCEPT !.status = "rejected", !.rejected_by = u, !.rejected_at = TRUE,
                !.rejection_reason = reason]

approveClaim(store, u, c) ==
    IF ~checkRole({"admin", "approver"}, u) THEN Outcome(403, store, <<>>, <<>>)
    ELSE IF c \notin DOMAIN store THEN Outcome(404, store, <<>>, <<>>)
    ELSE IF store[c].status \notin Decidable THEN Outcome(400, store, <<>>, <<>>)
    ELSE saved(store, u, c, approved(store[c], u), "approve")

\* the reject handler without its check of the validation result
rejectClaim_unvalidated(store, u, c, reason) ==
    IF ~checkRole({"admin", "approver"}, u) THEN Outcome(403, store, <<>>, <<>>)
    ELSE IF c \notin DOMAIN store THEN Outcome(404, store, <<>>, <<>>)
    ELSE IF store[c].status \notin Decidable THEN Outcome(400, store, <<>>, <<>>)
    ELSE saved(store, u, c, rejected(store[c], u, trim(reason)), "reject")

rejectClaim(store, u, c, reason) ==
    IF ~checkRole({"admin", "approver"}, u) THEN Outcome(403, store, <<>>, <<>>)
    ELSE IF trim(reason) = NoText THEN Outcome(400, store, <<>>, <<>>)
    ELSE IF c \notin DOMAIN store THEN Outcome(404, store, <<>>, <<>>)
    ELSE IF store[c].status \notin Decidable THEN Outcome(400, store, <<>>, <<>>)
    ELSE saved(store, u, c, rejected(store[c], u, trim(reason)), "reject")

recommendClaim(store, u, c, text) ==
    IF ~checkRole({"admin", "approver"}, u) THEN Outcome(403, store, <<>>, <<>>)
    ELSE IF trim(text) = NoText THEN Outcome(400, store, <<>>, <<>>)
    ELSE IF c \notin DOMAIN store THEN Outcome(404, store, <<>>, <<>>)
    ELSE saved(store, u, c, [store[c] EXCEPT !.status = "recommendation"], "update")

payClaim(store, u, c, ref) ==
    IF ~checkRole({"admin"}, u) THEN Outcome(403, store, <<>>, <<>>)
    ELSE IF trim(ref) = NoText THEN Outcome(400, store, <<>>, <<>>)
    ELSE IF c \notin DOMAIN store THEN Outcome(404, store, <<>>, <<>>)
    ELSE IF store[c].status # "approved" THEN Outcome(400, store, <<>>, <<>>)
    ELSE saved(store, u, c,
               [store[c] EXCEPT !.status = "paid", !.paid_by = u, !.paid_at = TRUE,
                                !.payment_reference = trim(ref)],
               "pay")

ApproveClaim(u, c) ==
    Handle(Request("approve", u, c, <<>>, NoText, "none"), approveClaim(claims, u, c))

RejectClaim(u, c, reason) ==
    Handle(Request("reject", u, c, <<>>, reason, "none"),
           rejectClaim(claims, u, c, reason))

RecommendClaim(u, c, text) ==
    Handle(Request("recommend", u, c, <<>>, text, "none"),
           recommendClaim(claims, u, c, text))

PayClaim(u, c, ref) ==
    Handle(Request("pay", u, c, <<>>, ref, "none"), payClaim(claims, u, c, ref))

---------------------------------------------------------------------------
(* PUT /claims/:id/status, second route set.  The handler never reads       *)
(* validationResult, so the isIn check of the route decides nothing.        *)

changeStatus(store, u, c, status) ==
    IF ~checkRole({"admin", "financial officer", "accountant", "administrator"}, u)
        THEN Outcome(403, store, <<>>, <<>>)
    ELSE IF c \notin DOMAIN store THEN Outcome(404, store, <<>>, <<>>)
    ELSE IF status = "none" THEN Outcome(500, store, <<>>, <<>>)  \* undefined.toLocaleLowerCase
    ELSE IF toLowerCase(store[c].status) = toLowerCase(status)
        THEN Outcome(400, store, <<>>, <<>>)
    ELSE saved(store, u, c,
               [store[c] EXCEPT !.status = status, !.approved_by = u,
                                !.approved_at = TRUE],
               "approve")

ChangeStatus(u, c, status) ==
    Handle(Request("status", u, c, <<>>, NoText, status),
           changeStatus(claims, u, c, status))

---------------------------------------------------------------------------
(* DELETE /claims/:id and DELETE /claims/:id/delete *)

\* claim.status !== 'new'
UndeletableV1(status) == status # "new"

\* the guard as its text suggests it was meant: new and pending deletable
UndeletableV2_meant(status) == status # "new" /\ status # "pending"

\* claim.status !== 'new' && 'pending': the text 'pending' is truthy
UndeletableV2(status) == status # "new" /\ TRUE

deleteClaimV1(store, u, c) ==
    IF c \notin DOMAIN store THEN Outcome(404, store, <<>>, <<>>)
    ELSE IF DeniedV1(u, store[c]) THEN Outcome(403, store, <<>>, <<>>)
    ELSE IF UndeletableV1(store[c].status) THEN Outcome(400, store, <<>>, <<>>)
    ELSE Outcome(200, Remove(store, c), <<>>, logActivity(u, "delete", "claim", c))

deleteClaimV2(store, u, c) ==
    IF c \notin DOMAIN store THEN Outcome(404, store, <<>>, <<>>)
    ELSE IF store[c].user_id # u THEN Outcome(403, store, <<>>, <<>>)
    ELSE IF UndeletableV2(store[c].status) THEN Outcome(400, store, <<>>, <<>>)
    ELSE Outcome(200, Remove(store, c), <<>>, logActivity(u, "delete", "claim", c))

DeleteClaimV1(u, c) ==
    Handle(Request("deleteV1", u, c, <<>>, NoText, "none"), deleteClaimV1(claims, u, c))

DeleteClaimV2(u, c) ==
    Handle(Request("deleteV2", u, c, <<>>, NoText, "none"), deleteClaimV2(claims, u, c))

---------------------------------------------------------------------------
(* DELETE /users/:id/delete *)

DeleteUser(u, target) ==
    /\ req' = Request("deleteUser", u, target, <<>>, NoText, "none")
    /\ UNCHANGED <<claims, flight>>
    /\ IF ~checkRole({"admin"}, u)
         THEN res' = Response(403, <<>>) /\ logged' = <<>> /\ UNCHANGED users
       ELSE IF target \notin DOMAIN users               \* user._id of null
         THEN res' = Response(500, <<>>) /\ logged' = <<>> /\ UNCHANGED users
       ELSE IF target = u
         THEN res' = Response(400, <<>>) /\ logged' = <<>> /\ UNCHANGED users
       ELSE /\ users' = Remove(users, target)
            /\ res' = Response(200, <<>>)
            /\ logged' = logActivity(u, "delete", "user", target)

---------------------------------------------------------------------------
(* POST /users, PUT /users/:id, PUT /users/:id/status *)

UserOutcome(code, store, data, log) ==
    [ code |-> code, users |-> store, data |-> data, log |-> log ]

\* the server runs the handler of a user request r to the end
HandleUser(r, o) ==
    /\ req' = r
    /\ res' = Response(o.code, o.data)
    /\ users' = o.users
    /\ logged' = o.log
    /\ UNCHANGED <<claims, flight>>

\* the roles the validators of the user routes list
ValidatorRoles == {"admin", "worker", "manager", "approver"}

\* the bodies of the requests: "none" and "" stand for an absent field,
\* "bad" for a text that is no email address
BodyEmails == {NoText, "W1@X", "new@x", "bad"}
BodyRoles == {"none", "worker", "manager", "accountant"}
BodyStatuses == {"none", "inactive", "bogus"}
BodyEmployeeIds == {<<>>, <<EmployeeId("hfa-w", 9)>>, <<EmployeeId("ZZ", 1)>>}

\* req.body.password of POST /users: a text the validator accepts
BodyPassword == "secret"

Body(email, role, status, employee_id) ==
    [ email |-> email, role |-> role, status |-> status,
      employee_id |-> employee_id ]

CreateBodies ==
    {Body("new@x", "worker", "none", id) : id \in BodyEmployeeIds}
      \cup {Body(e, "worker", "none", <<>>) : e \in BodyEmails}
      \cup {Body("new@x", r, "none", <<>>) : r \in BodyRoles}

\* a body that changes one field, or every field at once
UpdateBodies ==
    {Body(e, "none", "none", <<>>) : e \in BodyEmails}
      \cup {Body(NoText, r, "none", <<>>) : r \in BodyRoles}
      \cup {Body(NoText, "none", st, <<>>) : st \in BodyStatuses}
      \cup {Body("new@x", "worker", "inactive", <<EmployeeId("ZZ", 1)>>)}

createUser(store, u, id, b) ==
    IF ~checkRole({"admin"}, u) THEN UserOutcome(403, store, <<>>, <<>>)
    ELSE IF b.email \in {NoText, "bad"} \/ b.role \notin ValidatorRoles
        THEN UserOutcome(400, store, <<>>, <<>>)
    ELSE IF \E x \in DOMAIN store : store[x].email = toLowerCase(b.email)
        THEN UserOutcome(400, store, <<>>, <<>>)
    ELSE IF /\ b.employee_id # <<>>
            /\ \E x \in DOMAIN store :
                   store[x].employee_id = toUpperCase(b.employee_id[1])
        THEN UserOutcome(400, store, <<>>, <<>>)
    ELSE LET eid == IF b.employee_id = <<>> THEN generateEmployeeId(store)
                    ELSE b.employee_id[1]
             doc == NewUser(toUpperCase(eid), toLowerCase(b.email), BodyPassword,
                            b.role, IF b.status = "none" THEN "active" ELSE b.status)
         IN  IF ~UserValid(doc) \/ ~UniqueIndex(store, id, doc)
               THEN UserOutcome(500, store, <<>>, <<>>)
             ELSE UserOutcome(201, Put(store, id, doc), <<toJSON(doc)>>,
                              logActivity(u, "create", "user", id))

CreateUser(u, id, b) ==
    LET o == createUser(users, u, id, b)
    IN  /\ o.code = 201 => id \notin DOMAIN users
        /\ HandleUser(UserRequest("createUser", u, id, b), o)

\* admin-only fields that everyone may write
adminOnly_open(value, isAdmin) == value

\* delete req.body.role / status for a non-admin, and the later
\* "req.body.role && isAdmin"
adminOnly(value, isAdmin) == IF isAdmin THEN value ELSE "none"

updateUser(store, u, t, b) ==
    IF \/ b.email = "bad"
       \/ b.role # "none" /\ b.role \notin ValidatorRoles
       \/ b.status # "none" /\ b.status \notin UserStatuses
        THEN UserOutcome(400, store, <<>>, <<>>)
    ELSE IF t \notin DOMAIN store THEN UserOutcome(404, store, <<>>, <<>>)
    ELSE IF u # t /\ RoleOf(u) # "admin" THEN UserOutcome(403, store, <<>>, <<>>)
    ELSE LET isAdmin == RoleOf(u) = "admin"
             role == adminOnly(b.role, isAdmin)
             status == adminOnly(b.status, isAdmin)
             newEmail == b.email # NoText /\ b.email # store[t].email
             doc == [store[t] EXCEPT
                        !.email = IF newEmail THEN toLowerCase(b.email) ELSE @,
                        !.role = IF role # "none" THEN role ELSE @,
                        !.status = IF status # "none" THEN status ELSE @]
         IN  IF /\ newEmail
                /\ \E x \in DOMAIN store \ {t} : store[x].email = toLowerCase(b.email)
               THEN UserOutcome(400, store, <<>>, <<>>)
             ELSE IF ~UserValid(doc) \/ ~UniqueIndex(store, t, doc)
               THEN UserOutcome(500, store, <<>>, <<>>)
             ELSE UserOutcome(200, Put(store, t, doc), <<toJSON(doc)>>,
                      logActivity(u, IF u = t THEN "update" ELSE "admin_update",
                                  "user", t))

UpdateUser(u, t, b) ==
    HandleUser(UserRequest("updateUser", u, t, b), updateUser(users, u, t, b))

changeUserStatus(store, u, t, status) ==
    IF ~checkRole({"admin"}, u) THEN UserOutcome(403, store, <<>>, <<>>)
    ELSE IF status = "none" THEN UserOutcome(400, store, <<>>, <<>>)
    ELSE IF t \notin DOMAIN store THEN UserOutcome(404, store, <<>>, <<>>)
    ELSE IF t = u THEN UserOutcome(400, store, <<>>, <<>>)
    ELSE LET doc == [store[t] EXCEPT !.status = status]
         IN  IF ~UserValid(doc) THEN UserOutcome(500, store, <<>>, <<>>)
             ELSE UserOutcome(200, Put(store, t, doc), <<>>,
                              logActivity(u, "delete", "user", t))

ChangeUserStatus(u, t, status) ==
    HandleUser(Request("userStatus", u, t, <<>>, NoText, status),
               changeUserStatus(users, u, t, status))

---------------------------------------------------------------------------
(* POST /auth/login *)

\* user.comparePassword(password): bcrypt.compare with the stored hash
comparePassword(doc, password) == doc.password = bcryptHash(password)

\* a username is one text; the model keeps it as the email text it may be,
\* or as the employee id it may be
LoginName(text, id) == [ text |-> text, id |-> id ]

LoginNames ==
    { LoginName(NoText, <<>>), LoginName("admin", <<>>), LoginName("W1@X", <<>>),
      LoginName("nobody@x", <<>>),
      LoginName(NoText, <<EmployeeId("hfa-w", FirstSuffix + 2)>>) }
Passwords == {NoText, "Admin@123", "secret"}

\* User.findOne({$or: [{email: lower}, {employee_id: upper}]})
findByLogin(store, name) ==
    {x \in DOMAIN store :
        \/ name.text # NoText /\ store[x].email = toLowerCase(name.text)
        \/ name.id # <<>> /\ store[x].employee_id = toUpperCase(name.id[1])}

\* jwt.sign({userId, name, email, role, employee_id}, ...)
token(store, x) ==
    [ userId |-> x, email |-> store[x].email, role |-> store[x].role,
      employee_id |-> store[x].employee_id ]

\* data of the login response: the named fields of the user and the tokens
loggedIn(store, x) ==
    [ user |-> [ id |-> x, email |-> store[x].email, role |-> store[x].role,
                 employee_id |-> store[x].employee_id ],
      token |-> token(store, x),
      refresh_token |-> [ userId |-> x, signed |-> TRUE ] ]

\* the answer of the special handling of the admin login
adminLogin(store, password) ==
    LET found == {x \in DOMAIN store : store[x].email = InitialEmail("admin")}
    IN  IF found = {} THEN UserOutcome(500, store, <<"Server error during authentication">>, <<>>)   \* bcrypt is not defined
        ELSE LET a == CHOOSE x \in found : TRUE
             IN  IF ~comparePassword(store[a], password)
                   THEN UserOutcome(401, store, <<"Invalid credentials">>, <<>>)
                 ELSE UserOutcome(200, store, <<loggedIn(store, a)>>,
                                  logActivity(a, "login", "user", a))

login(store, name, password) ==
    IF (name.text = NoText /\ name.id = <<>>) \/ password = NoText
        THEN UserOutcome(400, store, <<>>, <<>>)
    ELSE IF name.text = "admin" /\ password = "Admin@123"
        THEN adminLogin(store, password)
    ELSE LET found == findByLogin(store, name)
         IN  IF found = {} THEN UserOutcome(401, store, <<"Invalid credentials">>, <<>>)
             ELSE LET x == CHOOSE y \in found : TRUE
                  IN  IF store[x].status # "active"
                        THEN UserOutcome(403, store, <<"Account is not active. Please contact administrator.">>, <<>>)
                      ELSE IF ~comparePassword(store[x], password)
                        THEN UserOutcome(401, store, <<"Incorrect Password credentials">>, <<>>)
                      ELSE UserOutcome(200, store, <<loggedIn(store, x)>>,
                                       logActivity(x, "login", "user", x))

---------------------------------------------------------------------------
(* POST /auth/refresh, GET /auth/me, GET /users, GET /users/:id *)

\* req.body.refresh_token: absent, a token jwt.verify rejects, or a token
\* signed for a user id
RefreshTokens ==
    {<<>>, <<[ userId |-> "w1", signed |-> FALSE ]>>}
        \cup {<<[ userId |-> x, signed |-> TRUE ]>> : x \in UserIds}

refresh(store, tok) ==
    IF tok = <<>> THEN UserOutcome(400, store, <<>>, <<>>)
    ELSE IF ~tok[1].signed THEN UserOutcome(401, store, <<>>, <<>>)
    ELSE LET x == tok[1].userId
         IN  IF x \notin DOMAIN store \/ store[x].status # "active"
               THEN UserOutcome(401, store, <<>>, <<>>)
             ELSE UserOutcome(200, store, <<[ token |-> token(store, x) ]>>, <<>>)

me(store, u) ==
    IF u \notin DOMAIN store THEN UserOutcome(404, store, <<>>, <<>>)
    ELSE UserOutcome(200, store, <<selectNoPassword(store[u])>>, <<>>)

\* the documents of a query as an array
RECURSIVE UserDocs(_, _)
UserDocs(store, ids) ==
    IF ids = {} THEN <<>>
    ELSE LET x == CHOOSE y \in ids : TRUE
         IN  <<selectNoPassword(store[x])>> \o UserDocs(store, ids \ {x})

listUsers(store, u) ==
    IF ~checkRole({"admin"}, u) THEN UserOutcome(403, store, <<>>, <<>>)
    ELSE UserOutcome(200, store, UserDocs(store, DOMAIN store),
                     logActivity(u, "view", "user", "all"))

getUser(store, u, t) ==
    IF RoleOf(u) # "admin" /\ u # t THEN UserOutcome(403, store, <<>>, <<>>)
    ELSE IF t \notin DOMAIN store THEN UserOutcome(404, store, <<>>, <<>>)
    ELSE UserOutcome(200, store, <<selectNoPassword(store[t])>>, <<>>)

---------------------------------------------------------------------------
(* The response has left: the server waits for the next request *)

Respond ==
    /\ req # NoRequest
    /\ req' = NoRequest
    /\ res' = NoResponse
    /\ logged' = <<>>
    /\ UNCHANGED <<claims, users, flight>>

---------------------------------------------------------------------------

Init ==
    /\ claims = << >>
    /\ users = InitialUsers
    /\ req = NoRequest
    /\ res = NoResponse
    /\ logged = <<>>
    /\ flight = [ s \in 1..MaxInFlight |-> Idle ]

(* One action per route: the server takes a request of that route *)

OnListClaimsV1 ==
    Ready /\ \E u \in UserIds, o \in OwnerFilters, st \in StatusFilters :
                 Handle(Request("listV1", u, "none", <<>>, o, st),
                        listClaimsV1(claims, u, o, st))

OnListClaimsV2 ==
    Ready /\ \E u \in UserIds, o \in OwnerFilters, st \in StatusFilters :
                 Handle(Request("listV2", u, "none", <<>>, o, st),
                        listClaimsV2(claims, u, o, st))

OnGetClaim ==
    Ready /\ \E u \in UserIds, c \in ClaimIds : GetClaim(u, c)

\* GET /claims/stats as the router serves it
OnGetStats ==
    Ready /\ \E u \in UserIds :
                 Handle(Request("stats", u, "stats", <<>>, NoText, "none"),
                        IF dispatch(<<"stats">>) = "getStats" THEN getStats(claims, u)
                        ELSE getClaim(claims, u, "stats"))

OnCreateClaimV1 ==
    Ready /\ \E u \in UserIds, c \in ClaimIds, a \in OptAmounts, f \in BodyFields :
                 CreateClaimV1(u, c, a, f)

OnCreateClaimV2 ==
    Ready /\ \E u \in UserIds, c \in ClaimIds, a \in OptAmounts, f \in BodyFields :
                 CreateClaimV2(u, c, a, f)

OnUpdateClaimV1 ==
    Ready /\ \E u \in UserIds, c \in ClaimIds, a \in OptAmounts : UpdateClaimV1(u, c, a)

OnUpdateClaimV2 ==
    Ready /\ \E u \in UserIds, c \in ClaimIds, a \in OptAmounts : UpdateClaimV2(u, c, a)

OnApproveClaim ==
    Ready /\ \E u \in UserIds, c \in ClaimIds : ApproveClaim(u, c)

OnRejectClaim ==
    Ready /\ \E u \in UserIds, c \in ClaimIds, t \in Reasons : RejectClaim(u, c, t)

OnRecommendClaim ==
    Ready /\ \E u \in UserIds, c \in ClaimIds, t \in Reasons : RecommendClaim(u, c, t)

OnPayClaim ==
    Ready /\ \E u \in UserIds, c \in ClaimIds, t \in References : PayClaim(u, c, t)

OnChangeStatus ==
    Ready /\ \E u \in UserIds, c \in ClaimIds, s \in StatusInputs : ChangeStatus(u, c, s)

OnDeleteClaimV1 ==
    Ready /\ \E u \in UserIds, c \in ClaimIds : DeleteClaimV1(u, c)

OnDeleteClaimV2 ==
    Ready /\ \E u \in UserIds, c \in ClaimIds : DeleteClaimV2(u, c)

OnDeleteUser ==
    Ready /\ \E u \in UserIds, t \in UserIds : DeleteUser(u, t)

OnCreateUser ==
    Ready /\ \E u \in UserIds, id \in NewUserIds, b \in CreateBodies : CreateUser(u, id, b)

OnUpdateUser ==
    Ready /\ \E u \in UserIds, t \in UserIds \cup NewUserIds, b \in UpdateBodies :
                 UpdateUser(u, t, b)

OnChangeUserStatus ==
    Ready /\ \E u \in UserIds, t \in UserIds \cup NewUserIds, st \in BodyStatuses :
                 ChangeUserStatus(u, t, st)

Next ==
    \/ OnListClaimsV1
    \/ OnListClaimsV2
    \/ OnGetClaim
    \/ OnGetStats
    \/ OnCreateClaimV1
    \/ OnCreateClaimV2
    \/ OnUpdateClaimV1
    \/ OnUpdateClaimV2
    \/ OnApproveClaim
    \/ OnRejectClaim
    \/ OnRecommendClaim
    \/ OnPayClaim
    \/ OnChangeStatus
    \/ OnDeleteClaimV1
    \/ OnDeleteClaimV2
    \/ OnDeleteUser
    \/ Respond

Spec == Init /\ [][Next]_vars

OnLogin ==
    Ready /\ \E name \in LoginNames, password \in Passwords :
                 HandleUser(UserRequest("login", NoUser, "none",
                                        [ username |-> name, password |-> password ]),
                            login(users, name, password))

---------------------------------------------------------------------------
(* SpecUsers: the user routes on the user documents *)

NextUsers ==
    \/ OnLogin
    \/ OnCreateUser
    \/ OnUpdateUser
    \/ OnChangeUserStatus
    \/ OnDeleteUser
    \/ Respond

SpecUsers == Init /\ [][NextUsers]_vars

---------------------------------------------------------------------------
(* SpecRead: the routes that answer with user data, on the user documents   *)
(* that POST /users and PUT /users/:id build, and on the claims of the      *)
(* workers.                                                                 *)

OnRefresh ==
    Ready /\ \E tok \in RefreshTokens :
                 HandleUser(UserRequest("refresh", NoUser, "none",
                                        [ refresh_token |-> tok ]),
                            refresh(users, tok))

OnMe ==
    Ready /\ \E u \in UserIds \cup NewUserIds :
                 HandleUser(Request("me", u, "none", <<>>, NoText, "none"),
                            me(users, u))

OnListUsers ==
    Ready /\ \E u \in UserIds :
                 HandleUser(Request("listUsers", u, "none", <<>>, NoText, "none"),
                            listUsers(users, u))

OnGetUser ==
    Ready /\ \E u \in UserIds, t \in UserIds \cup NewUserIds :
                 HandleUser(Request("getUser", u, t, <<>>, NoText, "none"),
                            getUser(users, u, t))

\* POST /claims by a worker, with a body that passes the validators
OnSubmitClaim ==
    Ready /\ \E u \in Workers, c \in ClaimIds, f \in {"ok", "decided"} :
                 CreateClaimV2(u, c, <<0>>, f)

NextRead ==
    \/ OnLogin
    \/ OnRefresh
    \/ OnMe
    \/ OnListUsers
    \/ OnGetUser
    \/ OnCreateUser
    \/ OnUpdateUser
    \/ OnSubmitClaim
    \/ OnGetClaim
    \/ Respond

SpecRead == Init /\ [][NextRead]_vars

---------------------------------------------------------------------------
(* SpecIds: generateEmployeeId applied to the user collections that the     *)
(* routes can build: POST /users stores any employee id the admin sends.    *)

IdPool ==
    {EmployeeId("HFA-W", n) : n \in {9, 10, FirstSuffix, FirstSuffix + 1}}
      \cup {EmployeeId("HFA-ADMIN", 1), EmployeeId("ZZ", 1)}

IdStores ==
    UNION {{ [u \in S |-> NewUser(f[u], InitialEmail(u), PasswordOf(u), RoleOf(u),
                                   "active")] :
               f \in {g \in [S -> IdPool] :
                         \A x, y \in S : x # y => g[x] # g[y]} } :
           S \in SUBSET UserIds}

InitIds ==
    /\ claims = << >>
    /\ users \in IdStores
    /\ req = NoRequest
    /\ res = NoResponse
    /\ logged = <<>>
    /\ flight = [ s \in 1..MaxInFlight |-> Idle ]

GenerateEmployeeId ==
    /\ Ready
    /\ req' = Request("generateEmployeeId", NoUser, "none", <<>>, NoText, "none")
    /\ res' = Response(200, <<generateEmployeeId(users)>>)
    /\ UNCHANGED <<claims, users, logged, flight>>

NextIds ==
    \/ GenerateEmployeeId
    \/ Respond

SpecIds == InitIds /\ [][NextIds]_vars

---------------------------------------------------------------------------
(* SpecRace: PUT /claims/:id/approve and /reject as they run under          *)
(* concurrent requests.  A handler is suspended at await Claim.findById     *)
(* and at await claim.save(); other handlers run in between.                *)

Slots == 1..MaxInFlight

Slot(pc, op, by, id, text, seen, code) ==
    [ pc |-> pc, op |-> op, by |-> by, id |-> id, text |-> text,
      seen |-> seen, code |-> code ]

\* the role check, the validation and findById of a handler in slot s
Load(s, op, u, c, text, admitted, valid) ==
    /\ flight[s].pc = "idle"
    /\ flight' = [flight EXCEPT ![s] =
          IF ~admitted THEN Slot("done", op, u, c, text, <<>>, 403)
          ELSE IF ~valid THEN Slot("done", op, u, c, text, <<>>, 400)
          ELSE IF c \notin DOMAIN claims THEN Slot("done", op, u, c, text, <<>>, 404)
          ELSE Slot("loaded", op, u, c, text, <<claims[c]>>, 0)]
    /\ UNCHANGED <<claims, users, req, res, logged>>

BeginApprove(s, u, c) ==
    /\ Ready
    /\ Load(s, "approve", u, c, NoText, checkRole({"admin", "approver"}, u), TRUE)

BeginReject(s, u, c, reason) ==
    /\ Ready
    /\ Load(s, "reject", u, c, trim(reason), checkRole({"admin", "approver"}, u),
            trim(reason) # NoText)

\* the status guard on the document read, then save(): an update of the
\* paths the handler modified on the stored document of that _id
Save(s, upd, paths) ==
    LET f == flight[s]
        old == f.seen[1]
    IN  IF old.status \notin Decidable
          THEN /\ flight' = [flight EXCEPT ![s].pc = "done", ![s].code = 400]
               /\ UNCHANGED <<claims, logged>>
        ELSE IF ~ClaimValid(upd) \/ f.id \notin DOMAIN claims
          THEN /\ flight' = [flight EXCEPT ![s].pc = "done", ![s].code = 500]
               /\ UNCHANGED <<claims, logged>>
        ELSE /\ claims' = Put(claims, f.id,
                              [p \in DOMAIN upd |->
                                  IF p \in paths THEN upd[p] ELSE claims[f.id][p]])
             /\ logged' = logActivity(f.by, f.op, "claim", f.id)
             /\ flight' = [flight EXCEPT ![s].pc = "done", ![s].code = 200]

FinishApprove(s) ==
    /\ Ready
    /\ flight[s].pc = "loaded"
    /\ flight[s].op = "approve"
    /\ Save(s, approved(flight[s].seen[1], flight[s].by),
            {"status", "approved_by", "approved_at"})
    /\ UNCHANGED <<users, req, res>>

FinishReject(s) ==
    /\ Ready
    /\ flight[s].pc = "loaded"
    /\ flight[s].op = "reject"
    /\ Save(s, rejected(flight[s].seen[1], flight[s].by, flight[s].text),
            {"status", "rejected_by", "rejected_at", "rejection_reason"})
    /\ UNCHANGED <<users, req, res>>

\* the response of the handler in slot s has left
Reply(s) ==
    /\ Ready
    /\ flight[s].pc = "done"
    /\ flight' = [flight EXCEPT ![s] = Idle]
    /\ UNCHANGED <<claims, users, req, res, logged>>

\* SpecRace takes create requests while the store is empty
CreateFirst == claims = << >> /\ OnCreateClaimV2

NextRace ==
    \/ CreateFirst
    \/ Respond
    \/ \E s \in Slots, u \in UserIds, c \in ClaimIds : BeginApprove(s, u, c)
    \/ \E s \in Slots, u \in UserIds, c \in ClaimIds, t \in Reasons : BeginReject(s, u, c, t)
    \/ \E s \in Slots : FinishApprove(s)
    \/ \E s \in Slots : FinishReject(s)
    \/ \E s \in Slots : Reply(s)

SpecRace == Init /\ [][NextRace]_vars

---------------------------------------------------------------------------
(* C1: When an approve request and a reject request run concurrently on    *)
(* the same claim, each reading the status, checking the guard and then     *)
(* writing, exactly one of them succeeds and the other gets an error: it    *)
(* never happens that both report success.                                  *)
(* The code has no such safeguard: both handlers answer 200.                *)

\* slots a and r hold an approve and a reject of one claim that both read
\* the claim before either wrote, and both have answered
RacedPair(a, r) ==
    /\ flight[a].op = "approve" /\ flight[r].op = "reject"
    /\ flight[a].id = flight[r].id
    /\ flight[a].pc = "done" /\ flight[r].pc = "done"
    /\ flight[a].seen # <<>> /\ flight[r].seen # <<>>
    /\ flight[a].seen[1].status \in Decidable
    /\ flight[r].seen[1].status \in Decidable

C1_ExactlyOneWins ==
    \A a, r \in Slots :
        RacedPair(a, r) =>
            (flight[a].code = 200) # (flight[r].code = 200)


---------------------------------------------------------------------------
(* Vocabulary of the claims.  A handler step is a step from Ready: its      *)
(* request is req', its response res', the stores before and after it are   *)
(* the unprimed and the primed ones.                                        *)

Blank(t) == t \in {"", " "}
EditOps == {"updateV1", "updateV2"}
DeleteOps == {"deleteV1", "deleteV2"}
CreateOps == {"createV1", "createV2"}
Stored(c) == c \in DOMAIN claims
IsAdmin(u) == RoleOf(u) = "admin"

---------------------------------------------------------------------------
(* C2: Over any sequence of operations on the claim endpoints, a claim's    *)
(* status becomes paid only by a step taken while its status is approved.   *)
(* PUT /claims/:id/status sets paid from any other status.                  *)

C2_PaidOnlyFromApproved ==
    [][\A c \in ClaimIds :
          (c \in DOMAIN claims' /\ claims'[c].status = "paid"
             /\ ~(Stored(c) /\ claims[c].status = "paid"))
          => (Stored(c) /\ claims[c].status = "approved")]_vars

---------------------------------------------------------------------------
(* C3: For a claim whose status is approved, the only status change any     *)
(* operation can make is approved -> paid; an approve request on an         *)
(* already-approved claim is answered with an error and changes nothing.    *)
(* PUT /claims/:id/status moves an approved claim to any other status.      *)

C3_ApprovedOnlyToPaid ==
    [][\A c \in ClaimIds :
          (Stored(c) /\ claims[c].status = "approved")
          => /\ c \in DOMAIN claims' => claims'[c].status \in {"approved", "paid"}
             /\ (Ready /\ req'.op = "approve" /\ req'.id = c)
                  => (res'.code >= 400 /\ claims' = claims)]_vars

---------------------------------------------------------------------------
(* C4: A reject request whose reason is missing or empty after trimming,    *)
(* made by a caller the role check admits, is answered 400 and leaves the   *)
(* claim (status, rejected_by, rejected_at, rejection_reason) unchanged;    *)
(* from any caller it is answered with an error and changes nothing.        *)

C4_RejectNeedsReason ==
    [][(Ready /\ req'.op = "reject" /\ Blank(req'.text))
        => /\ claims' = claims
           /\ res'.code >= 400
           /\ IsAdmin(req'.by) => res'.code = 400]_vars

\* an admin's reject with a blank reason of a stored claim that is still
\* open to a decision was answered 400
C4_Witness ==
    /\ req.op = "reject" /\ req.text = " " /\ IsAdmin(req.by)
    /\ Stored(req.id) /\ claims[req.id].status = "new"
    /\ claims[req.id].rejected_by = NoUser
    /\ res.code = 400

---------------------------------------------------------------------------
(* C5: For a claim whose status is paid, every edit (PUT /claims/:id) and   *)
(* every delete attempt by any caller fails with an error outcome and       *)
(* leaves the stored claim unchanged and still present.                     *)

C5_PaidImmutable ==
    [][\A c \in ClaimIds :
          (Ready /\ Stored(c) /\ claims[c].status = "paid"
             /\ req'.id = c /\ req'.op \in EditOps \cup DeleteOps)
          => (res'.code >= 400 /\ c \in DOMAIN claims' /\ claims'[c] = claims[c])]_vars

\* an admin's edit of a paid claim, with a new amount, was refused
C5_Witness ==
    /\ req.op = "updateV1" /\ IsAdmin(req.by) /\ req.amount = <<Threshold + 1>>
    /\ Stored(req.id) /\ claims[req.id].status = "paid"
    /\ res.code = 400

---------------------------------------------------------------------------
(* C6: For read, edit and delete of an existing claim, a caller who is      *)
(* neither the claim's owner nor an admin always receives 403 and the       *)
(* claim is neither returned, modified nor removed.                         *)
(* GET /claims/:id answers 500 once the owner's user document is deleted.   *)

C6_StrangerGets403 ==
    [][(Ready /\ req'.op \in {"get"} \cup EditOps \cup DeleteOps
          /\ Stored(req'.id)
          /\ ~IsAdmin(req'.by) /\ claims[req'.id].user_id # req'.by)
        => (res'.code = 403 /\ res'.data = <<>> /\ claims' = claims)]_vars

---------------------------------------------------------------------------
(* C7: The owner of a claim (not an admin) may edit and delete their own    *)
(* claim in an early status, and an admin may edit and delete any user's    *)
(* claim in an early status: neither caller gets 403.                       *)
(* The second route set answers 403 to both.                                *)

C7_OwnerOrAdminAdmitted ==
    [][(Ready /\ req'.op \in EditOps \cup DeleteOps
          /\ Stored(req'.id) /\ claims[req'.id].status = "new"
          /\ (IsAdmin(req'.by) \/ claims[req'.id].user_id = req'.by))
        => res'.code # 403]_vars

---------------------------------------------------------------------------
(* C8: A delete request removes the claim only if its status is new at the  *)
(* time of the request; for every other status the delete fails with an     *)
(* error and the claim remains stored unchanged.                            *)

C8_DeleteOnlyNew ==
    [][\A c \in ClaimIds :
          Stored(c) =>
            /\ c \notin DOMAIN claims'
                 => (claims[c].status = "new" /\ req'.op \in DeleteOps /\ req'.id = c)
            /\ (Ready /\ req'.op \in DeleteOps /\ req'.id = c /\ claims[c].status # "new")
                 => (res'.code >= 400 /\ claims' = claims)]_vars

\* the owner's DELETE /claims/:id/delete of a pending claim was refused
C8_Witness ==
    /\ req.op = "deleteV2" /\ Stored(req.id)
    /\ claims[req.id].user_id = req.by
    /\ claims[req.id].status = "pending"
    /\ res.code = 400

---------------------------------------------------------------------------
(* C9: Every claim created through POST /claims with an amount above the    *)
(* threshold (1000) is stored with status pending, never with status new.   *)
(* The second route set stores every claim as new.                          *)

C9_HighAmountPending ==
    (req.op \in CreateOps /\ res.code = 201 /\ req.amount[1] > Threshold)
        => (Stored(req.id) /\ claims[req.id].status = "pending")

---------------------------------------------------------------------------
(* C10: An edit that sets the amount above the threshold (1000) on a claim  *)
(* whose status is new changes its status to pending in the same write; an  *)
(* edit on a claim in any other editable status, or with any other amount,  *)
(* leaves the status unchanged.                                             *)

C10_EditPromotes ==
    [][(Ready /\ req'.op \in EditOps /\ res'.code = 200)
        => /\ Stored(req'.id) /\ req'.id \in DOMAIN claims'
           /\ claims'[req'.id].status =
                 IF claims[req'.id].status = "new" /\ req'.amount # <<>>
                    /\ req'.amount[1] > Threshold
                 THEN "pending" ELSE claims[req'.id].status]_vars

\* an edit with an amount above the threshold was stored and the claim,
\* which no status request has touched, is pending
C10_Witness ==
    /\ req.op \in EditOps /\ res.code = 200
    /\ req.amount = <<Threshold + 1>>
    /\ Stored(req.id)
    /\ claims[req.id].amount = Threshold + 1
    /\ claims[req.id].status = "pending"
    /\ claims[req.id].approved_by = NoUser

---------------------------------------------------------------------------
(* C11: Once a decision has been recorded on a claim (its status has been   *)
(* approved, rejected or paid at some point), no later edit request ever    *)
(* changes its amount (nor its other edited fields), whatever operations    *)
(* happen in between.                                                       *)
(* PUT /claims/:id/status reopens a decided claim and the edit then writes. *)

Decisions == {"approved", "rejected", "paid"}

\* rejected_by is written by the reject handler only, paid_by by the pay
\* handler only, each together with its status: a claim that carries one of
\* them, or is in a decision status, has had a decision recorded
DecisionRecorded(doc) ==
    \/ doc.status \in Decisions
    \/ doc.rejected_by # NoUser
    \/ doc.paid_by # NoUser

C11_NoEditAfterDecision ==
    [][\A c \in ClaimIds :
          (Ready /\ req'.op \in EditOps /\ req'.id = c
             /\ Stored(c) /\ DecisionRecorded(claims[c]))
          => (c \in DOMAIN claims' /\ claims'[c].amount = claims[c].amount)]_vars

---------------------------------------------------------------------------
(* C12: A recommend request changes a claim's status to recommendation      *)
(* only when the claim's current status is new or pending; on a claim that  *)
(* is approved, rejected or paid it fails and leaves the status unchanged.  *)
(* The handler has no status guard: the request fails at save(), because    *)
(* the status it writes is not in the schema's enum.                        *)

---------------------------------------------------------------------------
(* C13: In every reachable state, a claim with status approved has          *)
(* approved_by and approved_at set, a claim with status rejected has        *)
(* rejected_by and rejected_at set, and a claim with status paid has        *)
(* paid_by and paid_at set.                                                 *)
(* PUT /claims/:id/status stamps approved_by/approved_at for every status.  *)

C13_DecisionStamped ==
    \A c \in DOMAIN claims :
        /\ claims[c].status = "approved"
             => (claims[c].approved_by # NoUser /\ claims[c].approved_at)
        /\ claims[c].status = "rejected"
             => (claims[c].rejected_by # NoUser /\ claims[c].rejected_at)
        /\ claims[c].status = "paid"
             => (claims[c].paid_by # NoUser /\ claims[c].paid_at)

---------------------------------------------------------------------------
(* C14: In every reachable state, a claim with status paid has a non-empty  *)
(* payment reference and a claim with status rejected has a non-empty       *)
(* rejection reason.                                                        *)
(* PUT /claims/:id/status writes neither.                                   *)

C14_ReferenceAndReason ==
    \A c \in DOMAIN claims :
        /\ claims[c].status = "paid" => ~Blank(claims[c].payment_reference)
        /\ claims[c].status = "rejected" => ~Blank(claims[c].rejection_reason)

---------------------------------------------------------------------------
(* C15: PUT /claims/:id/status only ever sets a claim's status to one of    *)
(* approved, rejected, paid or pending: a request carrying any other status *)
(* value, or no status, is rejected as a validation error (400) before the  *)
(* claim is written, and a request whose status equals the claim's current  *)
(* status is rejected with 400 and no change.                               *)
(* The handler never reads the validation result.                           *)

SettableStatuses == {"approved", "rejected", "paid", "pending"}

C15_StatusValidated ==
    [][(Ready /\ req'.op = "status" /\ Stored(req'.id)
          /\ RoleOf(req'.by) \in {"admin", "accountant", "administrator"})
        => /\ req'.status \notin SettableStatuses
                => (res'.code = 400 /\ claims' = claims)
           /\ req'.status = claims[req'.id].status
                => (res'.code = 400 /\ claims' = claims)
           /\ claims'[req'.id].status # claims[req'.id].status
                => claims'[req'.id].status \in SettableStatuses]_vars

---------------------------------------------------------------------------
(* C16: In every reachable state every stored claim has amount >= 0: a      *)
(* create request with a negative amount stores nothing and, from a caller  *)
(* the role check admits, is answered 400; no edit request leaves a stored  *)
(* claim with a negative amount.                                            *)

C16_AmountNonNegative ==
    [][/\ \A c \in DOMAIN claims' : claims'[c].amount >= 0
       /\ (Ready /\ req'.op \in CreateOps /\ req'.amount # <<>> /\ req'.amount[1] < 0)
            => /\ claims' = claims
               /\ res'.code >= 400
               /\ RoleOf(req'.by) \in {"worker", "admin"} => res'.code = 400]_vars

\* a worker's otherwise complete create request with a negative amount was
\* answered 400 and nothing is stored under its id
C16_Witness ==
    /\ req.op = "createV2" /\ req.text = "ok" /\ req.amount = <<-5>>
    /\ RoleOf(req.by) = "worker"
    /\ res.code = 400
    /\ ~Stored(req.id)

---------------------------------------------------------------------------
(* Vocabulary of the claims on the user routes *)

UserOps == {"updateUser", "userStatus", "deleteUser"}
LowerOf(e) == IF e = "W1@X" THEN "w1@x" ELSE e
UpperOf(id) == IF id.prefix = "hfa-w" THEN [id EXCEPT !.prefix = "HFA-W"] ELSE id
Account(u) == u \in DOMAIN users

\* a body that the validators of PUT /users/:id let through
WellFormed(b) ==
    /\ b.email # "bad"
    /\ b.role \in {"none", "admin", "worker", "manager", "approver"}
    /\ b.status \in {"none", "active", "inactive", "suspended"}

---------------------------------------------------------------------------
(* C17: No request issued by an actor through PUT /users/:id,               *)
(* PUT /users/:id/status or DELETE /users/:id/delete ever changes that      *)
(* actor's own account status away from active or removes that actor's own  *)
(* account.                                                                 *)
(* PUT /users/:id lets an admin write the status of the own account.        *)

C17_SelfProtected ==
    [][(Ready /\ req'.op \in UserOps /\ req'.id = req'.by
          /\ Account(req'.by) /\ users[req'.by].status = "active")
        => (req'.by \in DOMAIN users' /\ users'[req'.by].status = "active")]_vars

---------------------------------------------------------------------------
(* C18: A caller who is not an admin can never change the role, status or   *)
(* employee id of any user record, including their own: through             *)
(* PUT /users/:id a non-admin changes only the profile fields of their own  *)
(* record, and gets 403 on any other user's record (400 when the body does  *)
(* not pass the validators).                                                *)

C18_NonAdminLimited ==
    [][(Ready /\ req'.op \in UserOps \cup {"createUser"} /\ ~IsAdmin(req'.by))
        => /\ DOMAIN users' = DOMAIN users
           /\ \A t \in DOMAIN users :
                 /\ users'[t].role = users[t].role
                 /\ users'[t].status = users[t].status
                 /\ users'[t].employee_id = users[t].employee_id
                 /\ t # req'.by => users'[t] = users[t]
           /\ (req'.op = "updateUser" /\ Account(req'.id) /\ req'.id # req'.by)
                => /\ res'.code \in {400, 403}
                   /\ WellFormed(req'.body[1]) => res'.code = 403]_vars

\* the accountant's update of the own record with a new email, role, status
\* and employee id was stored: only the email has changed
C18_Witness ==
    /\ req.op = "updateUser" /\ req.by = "acct" /\ req.id = "acct"
    /\ req.body = <<[ email |-> "new@x", role |-> "worker", status |-> "inactive",
                      employee_id |-> <<[ prefix |-> "ZZ", n |-> 1 ]>> ]>>
    /\ res.code = 200
    /\ Account("acct")
    /\ users["acct"].email = "new@x"
    /\ users["acct"].role = "accountant"
    /\ users["acct"].status = "active"
    /\ users["acct"].employee_id.prefix = "HFA-W"

---------------------------------------------------------------------------
(* C19: After any sequence of user create and update requests, no two       *)
(* stored users share the same (lowercased) email and no two stored users   *)
(* share the same (uppercased) employee id; a create or update that would   *)
(* introduce a duplicate fails and leaves the store unchanged.              *)

\* the request names the email or the employee id of another stored user
NamesTaken(r) ==
    LET b == r.body[1]
    IN  \E x \in DOMAIN users \ {r.id} :
            \/ b.email # "" /\ LowerOf(b.email) = LowerOf(users[x].email)
            \/ /\ r.op = "createUser" /\ b.employee_id # <<>>
               /\ UpperOf(b.employee_id[1]) = UpperOf(users[x].employee_id)

---------------------------------------------------------------------------
(* C20: generateEmployeeId returns HFA-W-1001 when no user exists, and      *)
(* otherwise HFA-W-(n+1) where n is the largest numeric suffix among the    *)
(* existing employee ids of the form HFA-W-<digits>.                        *)
(* The code takes the last id in text order, not the largest suffix.        *)

Suffixes == {users[x].employee_id.n : x \in {y \in DOMAIN users : users[y].employee_id.prefix = "HFA-W"}}
LargestSuffix == CHOOSE n \in Suffixes : \A k \in Suffixes : k <= n

C20_NextAfterLargest ==
    req.op = "generateEmployeeId" =>
        /\ DOMAIN users = {} => res.data = <<[ prefix |-> "HFA-W", n |-> 1001 ]>>
        /\ Suffixes # {} => res.data = <<[ prefix |-> "HFA-W", n |-> LargestSuffix + 1 ]>>

---------------------------------------------------------------------------
(* C21: A login attempt with an unknown username-or-email and a login       *)
(* attempt with a known active user but a wrong password produce the same   *)
(* client-visible outcome: status 401 and the same generic                  *)
(* invalid-credentials message.                                             *)
(* The two branches of the login route send different messages.             *)

\* the accounts the username of the login request names
Named ==
    LET name == req.body[1].username
    IN  {x \in DOMAIN users :
            \/ name.text # "" /\ LowerOf(name.text) = users[x].email
            \/ name.id # <<>> /\ UpperOf(name.id[1]) = users[x].employee_id}

C21_SameDenial ==
    (/\ req.op = "login"
     /\ req.body[1].password # ""
     /\ req.body[1].username.text # "" \/ req.body[1].username.id # <<>>
     /\ \/ Named = {} /\ req.body[1].username.text # "admin"
        \/ \E x \in Named : /\ users[x].status = "active"
                            /\ req.body[1].password # PasswordOf(x))
        => res = [ code |-> 401, data |-> <<"Invalid credentials">> ]

---------------------------------------------------------------------------
(* C22: For a caller who is neither owner nor admin, the response to a      *)
(* single-claim read, edit or delete request is the same whether the        *)
(* requested claim exists (owned by someone else) or does not exist.        *)
(* The handlers answer 404 for a missing claim and 403 for another's.       *)

\* the answer of the handler of request r when the claim is not stored
AnswerIfMissing(r) ==
    LET without == [ x \in DOMAIN claims \ {r.id} |-> claims[x] ]
        o == CASE r.op = "get" -> getClaim(without, r.by, r.id)
               [] r.op = "updateV1" -> updateClaimV1(without, r.by, r.id, r.amount)
               [] r.op = "updateV2" -> updateClaimV2(without, r.by, r.id, r.amount)
               [] r.op = "deleteV1" -> deleteClaimV1(without, r.by, r.id)
               [] OTHER -> deleteClaimV2(without, r.by, r.id)
    IN  [ code |-> o.code, data |-> o.data ]

C22_ExistenceHidden ==
    [][(Ready /\ req'.op \in {"get"} \cup EditOps \cup DeleteOps
          /\ Stored(req'.id) /\ Account(claims[req'.id].user_id)
          /\ ~IsAdmin(req'.by) /\ claims[req'.id].user_id # req'.by)
        => res' = AnswerIfMissing(req')]_vars

---------------------------------------------------------------------------
(* C23: The claim list returned to a non-admin caller contains only claims  *)
(* owned by that caller, whatever filters the request carries.              *)
(* The second route set does not force the owner filter.                    *)

ListOps == {"listV1", "listV2"}

C23_ListOwnOnly ==
    (req.op \in ListOps /\ ~IsAdmin(req.by))
        => \A i \in DOMAIN res.data : res.data[i].user_id = req.by

---------------------------------------------------------------------------
(* C24: In every claim operation that mutates the store, the store write    *)
(* comes before the audit call, and no audit entry for a mutation is        *)
(* issued when the store write did not happen (guard failure, validation    *)
(* failure or not found).                                                   *)

MutatingOps ==
    CreateOps \cup EditOps \cup DeleteOps
        \cup {"approve", "reject", "recommend", "pay", "status"}

C24_AuditAfterWrite ==
    [][(Ready /\ req'.op \in MutatingOps)
        => /\ logged' # <<>>
                => /\ res'.code \in {200, 201}
                   /\ logged'[1].entity_id = req'.id
                   /\ req'.op \in DeleteOps <=> req'.id \notin DOMAIN claims'
           /\ res'.code >= 400 => (logged' = <<>> /\ claims' = claims)]_vars

\* an approve was stored and its one audit call followed
C24_Witness ==
    /\ req.op = "approve" /\ res.code = 200
    /\ Stored(req.id) /\ claims[req.id].status = "approved"
    /\ Len(logged) = 1
    /\ logged[1].action = "approve" /\ logged[1].entity_id = req.id
    /\ logged[1].stored

---------------------------------------------------------------------------
(* C25: If the audit write of a claim operation fails, the claim store      *)
(* mutation made by that operation stays in effect and the operation still  *)
(* reports success to the caller.                                           *)

---------------------------------------------------------------------------
(* C26: Every audit append issued by any route handler uses an action kind  *)
(* from {login, logout, create, update, delete, approve, reject, pay} and   *)
(* an entity type from {user, claim, system}.                               *)
(* The list routes issue 'view', PUT /users/:id issues 'admin_update'.      *)

C26_AuditKinds ==
    \A i \in DOMAIN logged :
        /\ logged[i].action \in {"login", "logout", "create", "update", "delete",
                                 "approve", "reject", "pay"}
        /\ logged[i].entity_type \in {"user", "claim", "system"}

---------------------------------------------------------------------------
(* C27: The audit entry written for a claim status transition has an        *)
(* action kind that matches the transition made: approve for a change to    *)
(* approved, reject for rejected, pay for paid; no transition to rejected,  *)
(* paid or pending is recorded as an approval.                              *)
(* PUT /claims/:id/status records every transition as 'approve'.            *)

C27_AuditMatchesTransition ==
    (req.op \in {"approve", "reject", "pay", "status"} /\ logged # <<>>
       /\ Stored(req.id))
        => /\ logged[1].action = "approve" <=> claims[req.id].status = "approved"
           /\ claims[req.id].status = "rejected" => logged[1].action = "reject"
           /\ claims[req.id].status = "paid" => logged[1].action = "pay"

---------------------------------------------------------------------------
(* C28: After any sequence of user and claim operations, every stored       *)
(* claim's owner reference points to a user that still exists.              *)
(* DELETE /users/:id/delete does not look at the claims.                    *)

C28_OwnerExists ==
    \A c \in DOMAIN claims : Account(claims[c].user_id)

---------------------------------------------------------------------------
(* C29: In every reachable state, every stored claim's status is a member   *)
(* of the claim schema's enumerated status set; a request that would store  *)
(* a status outside that set fails and leaves the claim unchanged.          *)

SchemaStatuses == {"new", "verified", "rejected", "paid", "approved", "pending"}

C29_StatusInEnum ==
    [][/\ \A c \in DOMAIN claims' : claims'[c].status \in SchemaStatuses
       /\ (Ready /\ Stored(req'.id)
             /\ \/ req'.op = "recommend"
                \/ req'.op = "status" /\ req'.status \notin SchemaStatuses)
            => (res'.code >= 400 /\ claims' = claims)]_vars

\* an admin's status request with a status the enum does not list, on a
\* new claim, has failed
C29_Witness ==
    /\ req.op = "status" /\ IsAdmin(req.by) /\ req.status = "Approved"
    /\ Stored(req.id) /\ claims[req.id].status = "new"
    /\ res.code = 500

---------------------------------------------------------------------------
(* C30: No request made by an actor whose role is worker ever causes a      *)
(* claim's status to become approved, rejected, paid or recommendation;     *)
(* the only status change a worker's requests can cause is new -> pending   *)
(* through the amount threshold, on a claim the worker owns.                *)

C30_WorkerStatusChanges ==
    [][\A c \in ClaimIds :
          (Ready /\ RoleOf(req'.by) = "worker" /\ Stored(c)
             /\ c \in DOMAIN claims' /\ claims'[c].status # claims[c].status)
          => /\ claims[c].status = "new" /\ claims'[c].status = "pending"
             /\ req'.op \in EditOps /\ req'.id = c
             /\ req'.amount # <<>> /\ req'.amount[1] > Threshold
             /\ claims[c].user_id = req'.by]_vars

\* a worker's edit of the own claim with an amount above the threshold was
\* stored and the claim is pending
C30_Witness ==
    /\ req.op = "updateV1" /\ RoleOf(req.by) = "worker" /\ res.code = 200
    /\ req.amount = <<Threshold + 1>>
    /\ Stored(req.id) /\ claims[req.id].user_id = req.by
    /\ claims[req.id].status = "pending"
    /\ claims[req.id].approved_by = NoUser

---------------------------------------------------------------------------
(* C31: An actor with role accountant is permitted to approve, reject,      *)
(* recommend and mark paid a claim through the per-action endpoints, and    *)
(* is denied every admin-only user-management operation.                    *)
(* The per-action routes list the roles admin and approver (pay: admin).    *)

DecisionOps == {"approve", "reject", "recommend", "pay"}

C31_AccountantDecides ==
    [][(Ready /\ Account(req'.by) /\ users[req'.by].role = "accountant")
        => /\ req'.op \in DecisionOps => res'.code # 403
           /\ req'.op \in {"createUser", "userStatus", "deleteUser"}
                => (res'.code = 403 /\ users' = users)]_vars

---------------------------------------------------------------------------
(* C32: A create request that passes input validation, made by an existing  *)
(* worker or admin, stores exactly one new claim owned by the caller and    *)
(* returns 201.                                                             *)
(* The first POST /claims never sets the required claimant_name and         *)
(* claim_type, the second takes them from the body where they are optional. *)

C32_CreateStores ==
    [][(Ready /\ req'.op \in CreateOps /\ req'.text # "invalid"
          /\ req'.amount # <<>> /\ req'.amount[1] >= 0
          /\ Account(req'.by) /\ users[req'.by].role \in {"worker", "admin"}
          /\ ~Stored(req'.id))
        => /\ res'.code = 201
           /\ DOMAIN claims' = DOMAIN claims \cup {req'.id}
           /\ claims'[req'.id].user_id = req'.by]_vars

---------------------------------------------------------------------------
(* C35: Once a claim's status is paid it never changes again: after any     *)
(* request by any actor the claim still exists with status paid.            *)
(* PUT /claims/:id/status has no guard on the current status.               *)

C35_PaidIsFinal ==
    [][\A c \in ClaimIds :
          (Stored(c) /\ claims[c].status = "paid")
          => (c \in DOMAIN claims' /\ claims'[c].status = "paid")]_vars

---------------------------------------------------------------------------
(* C37: The employee id returned by generateEmployeeId is never equal to    *)
(* the employee id of an existing user, for every set of existing ids.      *)
(* The last id in text order need not carry the largest number.             *)

C37_FreshEmployeeId ==
    req.op = "generateEmployeeId"
        => \A x \in DOMAIN users : <<users[x].employee_id>> # res.data

---------------------------------------------------------------------------
(* C38: A hard-delete or status-change request for a user id that does not  *)
(* exist returns 404, not 500, and changes nothing.                         *)
(* The hard delete reads user._id before it looks whether the user exists.  *)

C38_MissingUserIs404 ==
    [][(Ready /\ IsAdmin(req'.by) /\ ~Account(req'.id)
          /\ \/ req'.op = "deleteUser"
             \/ req'.op = "userStatus" /\ req'.status # "none")
        => (res'.code = 404 /\ users' = users)]_vars

---------------------------------------------------------------------------
(* C39: A GET request for /claims/stats is dispatched to the statistics     *)
(* handler: it is not captured by the earlier single-claim route            *)
(* GET /claims/:id with id = 'stats'.                                       *)
(* GET /:id is registered before GET /stats and matches the path.           *)

C39_StatsDispatched ==
    req.op = "stats"
        => /\ res.code = 200
           /\ Len(res.data) = 1
           /\ DOMAIN res.data[1] = {"total"}

---------------------------------------------------------------------------
(* C40: A newly created claim has no decision recorded: its approved_by,    *)
(* rejected_by, paid_by, rejection_reason and payment_reference are all     *)
(* unset and its status is new or pending, whatever fields the create       *)
(* request body carries.                                                    *)
(* The second POST /claims spreads the whole body into the document.        *)

C40_CreatedUndecided ==
    [][(Ready /\ req'.op \in CreateOps /\ res'.code = 201)
        => /\ req'.id \in DOMAIN claims'
           /\ claims'[req'.id].status \in {"new", "pending"}
           /\ claims'[req'.id].approved_by = "none"
           /\ claims'[req'.id].rejected_by = "none"
           /\ claims'[req'.id].paid_by = "none"
           /\ claims'[req'.id].rejection_reason = ""
           /\ claims'[req'.id].payment_reference = ""]_vars

---------------------------------------------------------------------------
(* C33: A login with username 'admin' and the bootstrap password succeeds   *)
(* and returns a token for an admin-role user in every state of the user    *)
(* store, including when no account admin@hfa-uk.com exists, in which case  *)
(* the account is created by that request.                                  *)
(* The creation calls bcrypt.hash in a file that does not import bcrypt.    *)

C33_BootstrapLogin ==
    (/\ req.op = "login"
     /\ req.body[1].username.text = "admin"
     /\ req.body[1].password = "Admin@123")
        => /\ res.code = 200
           /\ \E x \in DOMAIN users : users[x].email = "admin@x"

---------------------------------------------------------------------------
(* C34: No response of the login, refresh, profile, user-list, user-read,   *)
(* user-create, user-update or claim-read endpoints contains a user's       *)
(* stored credential hash.                                                  *)

UserDataOps == {"me", "getUser", "listUsers", "createUser", "updateUser"}

C34_NoHashInResponse ==
    /\ (req.op = "login" /\ res.code = 200)
         => \A part \in {"user", "token", "refresh_token"} :
                "password" \notin DOMAIN res.data[1][part]
    /\ (req.op = "refresh" /\ res.code = 200)
         => /\ DOMAIN res.data[1] = {"token"}
            /\ "password" \notin DOMAIN res.data[1].token
    /\ (req.op \in UserDataOps /\ res.code \in {200, 201})
         => \A i \in DOMAIN res.data : "password" \notin DOMAIN res.data[i]
    /\ (req.op = "get" /\ res.code = 200)
         => \A path \in {"user_id", "approved_by", "rejected_by", "paid_by"} :
                Account(claims[req.id][path])
                    => "password" \notin DOMAIN res.data[1][path]

\* POST /users stored a user with a password hash and answered with the
\* other fields of the document
C34_Witness ==
    /\ req.op = "createUser" /\ res.code = 201
    /\ Account(req.id) /\ users[req.id].password = <<"$2a$10$", "secret">>
    /\ DOMAIN res.data[1] = {"employee_id", "email", "role", "status"}

---------------------------------------------------------------------------
(* C36: No access token is ever issued to a user whose account status is    *)
(* not active: login (including the special admin login path) and token     *)
(* refresh both fail for an inactive or suspended user.                     *)
(* The admin login path does not look at the status.                        *)

C36_TokenOnlyForActive ==
    /\ (req.op = "login" /\ res.code = 200)
         => users[res.data[1].token.userId].status = "active"
    /\ (req.op = "refresh" /\ res.code = 200)
         => users[req.body[1].refresh_token[1].userId].status = "active"

=============================================================================
